---- MODULE Spec2Model ----
(***************************************************************************)
(* Model of the mlio Pack: a ZIP container holding content-addressed slot  *)
(* payloads and a manifest.json, as implemented by mlio/io/pack.py, the    *)
(* serializers registry and the module-version context dependency.         *)
(***************************************************************************)
EXTENDS Integers, Sequences, FiniteSets, TLC

VARIABLES
    archive,    \* the entries of the ZIP container, in append order
    opened,     \* TRUE while the ZipFile handle of the Pack is open
    stream_closed,  \* TRUE once the file object given to Pack was closed
    manifest,   \* the in-memory PackManifest of the Pack object
    now,        \* the value the next datetime.utcnow() call returns
    tz,         \* offset of the local time zone from UTC
    env,        \* installed version of every module of the execution context
    serializers_registry,   \* the registered serializers, in priority order
    registrations,          \* history: the register_serializer calls, in order
    result,     \* outcome of the last public operation
    stored,  \* history: the object last dumped under each key
    resources,      \* ResourceManager._resources of each manager, in insertion order
    bound_manager,  \* ResourceBase._manager of each resource object
    resource_obj    \* the resource_obj attribute of each resource object

\* the state of the resource managers and of the resource objects
rvars == <<resources, bound_manager, resource_obj>>

vars == <<archive, opened, stream_closed, manifest, now, tz, env, serializers_registry,
          registrations, result, stored, rvars>>

\* ------------------------------------------------------------------ bounds
MaxEntries == 7
MaxNow == 7
MaxRegistrations == 7
MaxFilenameLen == 5

Keys == {"k1", "k2"}
\* two ResourceManager objects
Managers == {"A", "B"}
\* the resource objects a caller builds: two of them have the same id, and the
\* file of one is in no repository
ResourceObjects ==
    { [id |-> "a", filename |-> "a.voc"], [id |-> "b", filename |-> "b.voc"],
      [id |-> "a", filename |-> "missing.voc"] }
Modules == {"numpy", "scipy"}
Missing == <<0, 0>>
InstalledAtStart == <<1, 1>>
OlderVersion == <<1, 0>>
TZOffsets == {1}
WestTZOffsets == {-4}

Obj(m, v) == [module |-> m, val |-> v]
NoObject == Obj("", <<>>)
Objects ==
    { Obj("tests", <<1>>), Obj("builtins", <<>>), Obj("numpy", <<1>>),
      Obj("scipy", <<1>>), Obj("__main__", <<1>>) }

Range(f) == { f[x] : x \in DOMAIN f }
EmptyMap == [x \in {} |-> x]

\* ------------------------------------------------------------- exceptions
OK == "ok"
SlotKeyError == "SlotKeyError"
MLIODependenciesNotSatisfied == "MLIODependenciesNotSatisfied"
MLIOPackSlotWrongChecksum == "MLIOPackSlotWrongChecksum"
MLIOPackWrongFormat == "MLIOPackWrongFormat"
UnknownObjectType == "UnknownObjectType"
UnknownSerializer == "UnknownSerializer"
ImportError == "ImportError"
ValueError == "ValueError"
DecodeError == "DecodeError"
JSONDecodeError == "JSONDecodeError"
AttributeError == "AttributeError"

\* ----------------------------------------------------------------- hasher
block_size == 65536

RECURSIVE file_as_blockiter(_)
file_as_blockiter(file) ==
    IF Len(file) = 0 THEN <<>>
    ELSE LET n == IF Len(file) < block_size THEN Len(file) ELSE block_size
         IN <<SubSeq(file, 1, n)>> \o file_as_blockiter(SubSeq(file, n + 1, Len(file)))

RECURSIVE HasherUpdate(_, _)
HasherUpdate(h, blocks) ==
    IF blocks = <<>> THEN h
    ELSE HasherUpdate(h \o Head(blocks), Tail(blocks))

\* SHA-256 is taken to be collision free: the digest of a byte string is the
\* string prefixed by its length.
hash_file_object(file) ==
    LET fed == HasherUpdate(<<>>, file_as_blockiter(file))
    IN <<Len(fed)>> \o fed

\* ----------------------------------------------------- context dependencies
get_installed_module_version(module_name) == env[module_name]

Importable(module_name) ==
    module_name \in DOMAIN env /\ env[module_name] # Missing

\* packaging's "~=X.Y": same major release, minor at least Y
SpecifierContains(version_specs, version) ==
    /\ version_specs.op = "~="
    /\ version[1] = version_specs.ver[1]
    /\ version[2] >= version_specs.ver[2]

ModuleVersionContextDependency(module_name, version_specs) ==
    [module_name |-> module_name, version_specs |-> version_specs]

dependency_id(dep) == <<"module-version", dep.module_name, dep.version_specs>>

\* "true", "false", or "raise" when the module cannot be imported
is_satisfied(dep) ==
    IF ~Importable(dep.module_name) THEN "raise"
    ELSE IF SpecifierContains(dep.version_specs,
                              get_installed_module_version(dep.module_name))
         THEN "true" ELSE "false"

DepToDict(dep) ==
    [type |-> "module-version",
     module_name |-> dep.module_name,
     version_specs |-> dep.version_specs]

DepFromDict(data) ==
    ModuleVersionContextDependency(data.module_name, data.version_specs)

\* ------------------------------------------------------------ serializers
PICKLE_PROTO == 128
PICKLE_STOP == 46
JOBLIB_MAGIC == 90

ModuleCode(m) ==
    CASE m = "tests" -> 10
      [] m = "numpy" -> 11
      [] m = "sklearn" -> 12
      [] m = "xgboost" -> 13
      [] m = "scipy" -> 14
      [] OTHER -> 19

ModuleOfCode(c) ==
    CASE c = 10 -> "tests"
      [] c = 11 -> "numpy"
      [] c = 12 -> "sklearn"
      [] c = 13 -> "xgboost"
      [] c = 14 -> "scipy"
      [] OTHER -> "builtins"

get_object_root_module(obj) == obj.module

\* the serializer classes; a class is named by its serializer_type(), but for
\* "strict-default", a class of a caller whose serializer_type() is "default"
serializer_type_of(serializer) ==
    IF serializer = "strict-default" THEN "default" ELSE serializer

\* the register_serializer calls made before a Pack is used: the built-in
\* serializers and two added ones: "raw-bytes" stores a bytes object verbatim,
\* "scipy-models" stores a scipy object and declares a module-version
\* dependency on scipy and on numpy
Registrations == <<"default", "generic-ml-models", "raw-bytes", "scipy-models">>

\* classes a caller registers later: "tests-models" accepts the objects of the
\* module tests, and so does "strict-default", which takes the place of the
\* default serializer
CustomSerializers == {"tests-models", "strict-default"}

\* mutant: a registered serializer goes to the low-priority end of the registry
register_serializer_last(registry, serializer) ==
    SelectSeq(registry, LAMBDA s : serializer_type_of(s) # serializer_type_of(serializer))
        \o <<serializer>>

\* __serializers_registry[type] = serializer; move_to_end(type, last=False)
register_serializer(registry, serializer) ==
    <<serializer>> \o
        SelectSeq(registry, LAMBDA s : serializer_type_of(s) # serializer_type_of(serializer))

RECURSIVE RegisterAll(_, _)
RegisterAll(registry, serializers) ==
    IF serializers = <<>> THEN registry
    ELSE RegisterAll(register_serializer(registry, Head(serializers)),
                     Tail(serializers))

\* the registry after the package was imported, in priority order
SerializersRegistry == RegisterAll(<<>>, Registrations)

can_serialize(serializer_type, obj) ==
    CASE serializer_type = "default" -> TRUE
      [] serializer_type \in CustomSerializers -> get_object_root_module(obj) = "tests"
      [] serializer_type = "generic-ml-models" ->
            get_object_root_module(obj) \in {"sklearn", "numpy", "xgboost"}
      [] serializer_type = "raw-bytes" -> get_object_root_module(obj) = "builtins"
      [] serializer_type = "scipy-models" -> get_object_root_module(obj) = "scipy"
      [] OTHER -> FALSE

\* mutant: the last registered serializer that accepts the object is returned
find_suitable_serializer_last(obj) ==
    LET hits == { i \in DOMAIN serializers_registry :
                    can_serialize(serializers_registry[i], obj) }
    IN IF hits = {} THEN UnknownObjectType
       ELSE serializers_registry[CHOOSE i \in hits : \A j \in hits : i >= j]

find_suitable_serializer(obj) ==
    LET hits == { i \in DOMAIN serializers_registry :
                    can_serialize(serializers_registry[i], obj) }
    IN IF hits = {} THEN UnknownObjectType
       ELSE serializers_registry[CHOOSE i \in hits : \A j \in hits : i <= j]

\* mutant: the class is taken to be named by the type asked for
get_serializer_by_type_named(type) ==
    IF \E i \in DOMAIN serializers_registry :
          serializer_type_of(serializers_registry[i]) = type
    THEN type
    ELSE UnknownSerializer

get_serializer_by_type(type) ==
    IF \E i \in DOMAIN serializers_registry :
          serializer_type_of(serializers_registry[i]) = type
    THEN serializers_registry[CHOOSE i \in DOMAIN serializers_registry :
                                 serializer_type_of(serializers_registry[i]) = type]
    ELSE UnknownSerializer

\* bytes written by serializer.dump(obj, fh)
SerializerDump(serializer_type, obj) ==
    CASE serializer_type = "default" ->
            <<PICKLE_PROTO, ModuleCode(obj.module)>> \o obj.val \o <<PICKLE_STOP>>
      [] serializer_type = "generic-ml-models" ->
            <<JOBLIB_MAGIC, ModuleCode(obj.module)>> \o obj.val
      [] serializer_type = "scipy-models" -> <<ModuleCode(obj.module)>> \o obj.val
      [] OTHER -> obj.val

\* object returned by serializer.load(fh), NoObject when the stream is not a
\* well-formed encoding
SerializerLoad(serializer_type, data) ==
    CASE serializer_type = "default" ->
            IF Len(data) >= 3 /\ data[1] = PICKLE_PROTO /\ data[Len(data)] = PICKLE_STOP
            THEN Obj(ModuleOfCode(data[2]), SubSeq(data, 3, Len(data) - 1))
            ELSE NoObject
      [] serializer_type = "generic-ml-models" ->
            IF Len(data) >= 2 /\ data[1] = JOBLIB_MAGIC
            THEN Obj(ModuleOfCode(data[2]), SubSeq(data, 3, Len(data)))
            ELSE NoObject
      [] serializer_type = "scipy-models" ->
            IF Len(data) >= 1 /\ data[1] = ModuleCode("scipy")
            THEN Obj("scipy", Tail(data))
            ELSE NoObject
      [] OTHER -> Obj("builtins", data)

\* the modules serializer.dump(obj, fh) passes to _add_module_version_dependency
DependencyModules(serializer_type, obj) ==
    CASE serializer_type = "generic-ml-models" -> {get_object_root_module(obj)}
      [] serializer_type = "scipy-models" -> {"scipy", "numpy"}
      [] OTHER -> {}

\* _add_module_version_dependency(module_name): "~=" the installed version
add_module_version_dependency(module_name) ==
    ModuleVersionContextDependency(
        module_name,
        [op |-> "~=", ver |-> get_installed_module_version(module_name)])

\* serializer.get_context_dependencies() after serializer.dump(obj, fh)
get_context_dependencies(serializer_type, obj) ==
    { add_module_version_dependency(module_name) :
        module_name \in DependencyModules(serializer_type, obj) }

\* what serializer.dump(obj, fh) raises, OK when it returns: pickle cannot
\* encode an instance of a class local to a function of __main__, and a module
\* the serializer declares may not be importable
SerializerDumpError(serializer_type, obj) ==
    IF serializer_type = "default" /\ get_object_root_module(obj) = "__main__"
    THEN AttributeError
    ELSE IF \E module_name \in DependencyModules(serializer_type, obj) :
                ~Importable(module_name)
    THEN ImportError
    ELSE OK

SerializerDumpRaises(serializer_type, obj) ==
    SerializerDumpError(serializer_type, obj) # OK

\* ---------------------------------------------------------- manifest slot
MANIFEST_FILENAME == [hash |-> <<>>, ext |-> "manifest.json"]

DepsById(deps) ==
    [id \in { dependency_id(d) : d \in deps } |->
        CHOOSE d \in deps : dependency_id(d) = id]

PackManifestSlot(serializer, serialized_sha256_hash, deps) ==
    [serializer |-> serializer,
     serialized_sha256_hash |-> serialized_sha256_hash,
     dependencies |-> DepsById(deps)]

\* mutant: the payload is named without the hash of its content
pack_object_fixed_name(slot) == [hash |-> <<>>, ext |-> "slot"]

pack_object(slot) == [hash |-> slot.serialized_sha256_hash, ext |-> "slot"]

find_unsatisfied_dependencies(slot) ==
    { dep_id \in DOMAIN slot.dependencies :
        is_satisfied(slot.dependencies[dep_id]) = "false" }

SlotDepRaises(slot) ==
    \E dep_id \in DOMAIN slot.dependencies :
        is_satisfied(slot.dependencies[dep_id]) = "raise"

SlotToDict(slot) ==
    [serialized_sha256_hash |-> slot.serialized_sha256_hash,
     serializer |-> slot.serializer,
     dependencies |-> DOMAIN slot.dependencies]

\* ---------------------------------------------------------------- manifest
Naive(t) == [t |-> t, aware |-> FALSE]
Aware(t) == [t |-> t, aware |-> TRUE]

\* datetime.timestamp(): a naive datetime is read as local time
Timestamp(dt) == IF dt.aware THEN dt.t ELSE dt.t - tz

PROTOCOL_VERSION == 2

\* mutant: the dependency object of the inserted slot replaces the one the
\* manifest holds under the same id
insert_slot_new_dependency_wins(m, slot_key, slot) ==
    [m EXCEPT
        !.dependencies =
            [id \in DOMAIN m.dependencies \cup DOMAIN slot.dependencies |->
                IF id \in DOMAIN slot.dependencies THEN slot.dependencies[id]
                ELSE m.dependencies[id]],
        !.slots =
            [k \in DOMAIN m.slots \cup {slot_key} |->
                IF k = slot_key THEN slot ELSE m.slots[k]]]

\* PackManifest.insert_slot, when the key is not in the manifest
insert_slot(m, slot_key, slot) ==
    [m EXCEPT
        !.dependencies =
            [id \in DOMAIN m.dependencies \cup DOMAIN slot.dependencies |->
                IF id \in DOMAIN m.dependencies THEN m.dependencies[id]
                ELSE slot.dependencies[id]],
        !.slots =
            [k \in DOMAIN m.slots \cup {slot_key} |->
                IF k = slot_key THEN slot ELSE m.slots[k]]]

CleanupDanglingDependencies(m) ==
    LET referenced_dep_ids ==
            UNION { DOMAIN m.slots[k].dependencies : k \in DOMAIN m.slots }
        dangling_dep_ids == DOMAIN m.dependencies \ referenced_dep_ids
    IN [m EXCEPT !.dependencies =
            [id \in DOMAIN m.dependencies \ dangling_dep_ids |-> m.dependencies[id]]]

\* mutant: the dependencies of the removed slot are deleted although another
\* slot references them
remove_slot_dropping_dependencies(m, slot_key) ==
    [m EXCEPT
        !.slots = [k \in DOMAIN m.slots \ {slot_key} |-> m.slots[k]],
        !.dependencies =
            [id \in DOMAIN m.dependencies \ DOMAIN m.slots[slot_key].dependencies |->
                m.dependencies[id]]]

remove_slot(m, slot_key) ==
    CleanupDanglingDependencies(
        [m EXCEPT !.slots = [k \in DOMAIN m.slots \ {slot_key} |-> m.slots[k]]])

\* utcnow is the value datetime.utcnow() returns
touch_updated_at(m, utcnow) == [m EXCEPT !.updated_at = Naive(utcnow)]

\* "shape" is what json.loads makes of the stored text: "object" for the
\* output of json.dumps(manifest.to_dict())
ManifestToDict(m) ==
    [shape |-> "object",
     version |-> PROTOCOL_VERSION,
     meta |-> [created_at |-> Timestamp(m.created_at),
               updated_at |-> Timestamp(m.updated_at)],
     dependencies |->
        [id \in { dependency_id(d) : d \in Range(m.dependencies) } |->
            DepToDict(CHOOSE d \in Range(m.dependencies) : dependency_id(d) = id)],
     slots |-> [k \in DOMAIN m.slots |-> SlotToDict(m.slots[k])]]

NoDoc ==
    [shape |-> "object",
     version |-> 0,
     meta |-> [created_at |-> 0, updated_at |-> 0],
     dependencies |-> EmptyMap,
     slots |-> EmptyMap]

\* the order of the items of 'slots' in the text of a document
SlotOrder == <<"k1", "k2">>

\* what PackManifestSlot.from_dict raises for the slot stored under k
SlotFromDictStatus(data, k) ==
    IF ~(data.slots[k].dependencies \subseteq DOMAIN data.dependencies)
    THEN MLIOPackWrongFormat
    ELSE IF get_serializer_by_type(data.slots[k].serializer) = UnknownSerializer
    THEN UnknownSerializer
    ELSE OK

\* PackManifest._slots_from_dict: the slots are rebuilt one after the other, the
\* first one that raises ends the loop
SlotsFromDictStatus(data) ==
    LET raising == SelectSeq(SlotOrder,
                             LAMBDA k : /\ k \in DOMAIN data.slots
                                        /\ SlotFromDictStatus(data, k) # OK)
    IN IF raising = <<>> THEN OK ELSE SlotFromDictStatus(data, Head(raising))

\* what json.loads followed by PackManifest.from_dict raises, OK when a
\* manifest is returned; the checks are in the order of the code
FromDictStatus(data) ==
    IF data.shape = "not-json" THEN JSONDecodeError
    ELSE IF data.shape = "not-object" THEN AttributeError
    ELSE IF data.version # 2 THEN MLIOPackWrongFormat
    ELSE IF data.shape = "dependencies-not-object" THEN MLIOPackWrongFormat
    ELSE IF data.shape = "dependency-not-object" THEN AttributeError
    ELSE IF \E id \in DOMAIN data.dependencies :
               \/ data.dependencies[id].type # "module-version"
               \/ dependency_id(DepFromDict(data.dependencies[id])) # id
         THEN MLIOPackWrongFormat
    ELSE IF data.shape = "slots-not-object" THEN MLIOPackWrongFormat
    ELSE SlotsFromDictStatus(data)

DocWellFormed(data) == FromDictStatus(data) = OK

ManifestFromDict(data) ==
    LET dependencies ==
            [id \in DOMAIN data.dependencies |-> DepFromDict(data.dependencies[id])]
    IN [created_at |-> Aware(data.meta.created_at),
        updated_at |-> Aware(data.meta.updated_at),
        dependencies |-> dependencies,
        slots |->
            [k \in DOMAIN data.slots |->
                PackManifestSlot(
                    get_serializer_by_type(data.slots[k].serializer),
                    data.slots[k].serialized_sha256_hash,
                    { dependencies[id] : id \in data.slots[k].dependencies })]]

\* -------------------------------------------------------------- the archive
PayloadEntry(name, data) == [name |-> name, data |-> data, doc |-> NoDoc]
ManifestEntry(doc) == [name |-> MANIFEST_FILENAME, data |-> <<>>, doc |-> doc]

Names(arch) == { arch[i].name : i \in DOMAIN arch }

\* ZipFile keeps duplicate entries but only the last one is effective
LastEntry(arch, name) ==
    arch[CHOOSE i \in DOMAIN arch :
            /\ arch[i].name = name
            /\ \A j \in DOMAIN arch : arch[j].name = name => j <= i]

\* mutant: a zero sized entry counts as an existing object
existing_pack_objects_any_size(arch) == Names(arch) \ {MANIFEST_FILENAME}

existing_pack_objects(arch) ==
    { name \in Names(arch) \ {MANIFEST_FILENAME} :
        Len(LastEntry(arch, name).data) # 0 }

RECURSIVE WriteAll(_, _)
WriteAll(arch, names) ==
    IF names = {} THEN arch
    ELSE LET n == CHOOSE x \in names : TRUE
         IN WriteAll(Append(arch, PayloadEntry(n, <<>>)), names \ {n})

unreferenced_objects(arch, m) ==
    existing_pack_objects(arch) \ { pack_object(m.slots[k]) : k \in DOMAIN m.slots }

\* mutant: the entries of the unreferenced objects are taken out of the archive
cleanup_dangling_pack_objects_deleting(arch, m) ==
    SelectSeq(arch, LAMBDA e : e.name \notin unreferenced_objects(arch, m))

cleanup_dangling_pack_objects(arch, m) ==
    WriteAll(arch, unreferenced_objects(arch, m))

\* mutant: the manifest is kept in memory and not written
update_manifest_not_written(arch, m, utcnow) == arch

update_manifest(arch, m, utcnow) ==
    Append(arch, ManifestEntry(ManifestToDict(touch_updated_at(m, utcnow))))

\* ------------------------------------------------------------- operations
Res(op, key, status, value, ids, decoded) ==
    [op |-> op, key |-> key, status |-> status, value |-> value, ids |-> ids,
     decoded |-> decoded]

Fail(op, key, status) == Res(op, key, status, NoObject, {}, FALSE)
Done(op, key) == Res(op, key, OK, NoObject, {}, FALSE)

\* PackManifest() called at time t: two utcnow() reads
PackManifest(t) ==
    [created_at |-> Naive(t), updated_at |-> Naive(t + 1),
     dependencies |-> EmptyMap, slots |-> EmptyMap]

\* mutant: no key is ever found in the manifest
has_slot_never(slot_key) == FALSE

has_slot(slot_key) == slot_key \in DOMAIN manifest.slots

\* state after Pack(file_handler) on an empty stream, in a time zone at the
\* given offset from UTC
InitAt(offset) ==
    /\ tz = offset
    /\ env = [m \in Modules |-> InstalledAtStart]
    /\ stream_closed = FALSE
    /\ serializers_registry = SerializersRegistry
    /\ registrations = Registrations
    /\ now = 3
    /\ manifest = touch_updated_at(PackManifest(0), 2)
    /\ archive = update_manifest(<<>>, PackManifest(0), 2)
    /\ opened = TRUE
    /\ result = Done("open", "")
    /\ stored = [k \in Keys |-> NoObject]
    /\ resources = [man \in Managers |-> <<>>]
    /\ bound_manager = [r \in ResourceObjects |-> "None"]
    /\ resource_obj = [r \in ResourceObjects |-> "unset"]

Init == \E offset \in TZOffsets : InitAt(offset)

\* the objects that can exist in the execution context: an object of a module
\* exists only where that module is importable
ObjectExists(obj) ==
    get_object_root_module(obj) \in Modules => Importable(get_object_root_module(obj))

DumpSlot(obj) ==
    LET serializer == find_suitable_serializer(obj)
    IN PackManifestSlot(serializer,
                        hash_file_object(SerializerDump(serializer, obj)),
                        get_context_dependencies(serializer, obj))

\* mutant: the slot is inserted before the payload is appended
DumpAppendFailsAfterInsert(slot_key, obj) ==
    /\ manifest' = touch_updated_at(insert_slot(manifest, slot_key, DumpSlot(obj)), now)
    /\ now' = now + 1
    /\ result' = Fail("dump", slot_key, ValueError)
    /\ UNCHANGED <<rvars, archive, opened, tz, stream_closed,
                   serializers_registry, registrations, env, stored>>

\* Pack.dump when ZipFile.write of the payload raises (the archive is closed):
\* insert_slot has not run yet
DumpAppendFails(slot_key, obj) ==
    /\ result' = Fail("dump", slot_key, ValueError)
    /\ UNCHANGED <<rvars, archive, opened, manifest, now, tz, stream_closed,
                   serializers_registry, registrations, env, stored>>

Dump(slot_key, obj) ==
    /\ ObjectExists(obj)
    /\ now < MaxNow
    /\ LET serializer == find_suitable_serializer(obj)
           data == SerializerDump(serializer, obj)
           slot == DumpSlot(obj)
           dedup == pack_object(slot) \in existing_pack_objects(archive)
           arch1 == IF dedup THEN archive
                    ELSE Append(archive, PayloadEntry(pack_object(slot), data))
           m1 == insert_slot(manifest, slot_key, slot)
       IN IF has_slot(slot_key)
          THEN /\ result' = Fail("dump", slot_key, SlotKeyError)
               /\ UNCHANGED <<rvars, archive, opened, manifest, now, tz, stream_closed,
                              serializers_registry, registrations, env, stored>>
          ELSE IF serializer = UnknownObjectType
          THEN /\ result' = Fail("dump", slot_key, UnknownObjectType)
               /\ UNCHANGED <<rvars, archive, opened, manifest, now, tz, stream_closed,
                              serializers_registry, registrations, env, stored>>
          ELSE IF SerializerDumpRaises(serializer, obj)
          THEN /\ result' = Fail("dump", slot_key, SerializerDumpError(serializer, obj))
               /\ UNCHANGED <<rvars, archive, opened, manifest, now, tz, stream_closed,
                              serializers_registry, registrations, env, stored>>
          ELSE IF ~opened /\ ~dedup
          THEN DumpAppendFails(slot_key, obj)
          ELSE IF ~opened
          THEN \* insert_slot and touch_updated_at ran, ZipFile.writestr raised
               /\ manifest' = touch_updated_at(m1, now)
               /\ now' = now + 1
               /\ result' = Fail("dump", slot_key, ValueError)
               /\ UNCHANGED <<rvars, archive, opened, tz, stream_closed,
                              serializers_registry, registrations, env, stored>>
          ELSE /\ Len(arch1) < MaxEntries
               /\ archive' = update_manifest(arch1, m1, now)
               /\ manifest' = touch_updated_at(m1, now)
               /\ now' = now + 1
               /\ result' = Done("dump", slot_key)
               /\ stored' = [stored EXCEPT ![slot_key] = obj]
               /\ UNCHANGED <<rvars, opened, tz, stream_closed,
                              serializers_registry, registrations, env>>

\* mutant: the streamed hash is not compared
ChecksumNeverMismatch(slot, data) == FALSE

\* the comparison of the streamed hash with the hash stored in the slot
ChecksumMismatch(slot, data) ==
    hash_file_object(data) # slot.serialized_sha256_hash

\* what Pack.load(slot_key) returns or raises in the current state
LoadOutcome(slot_key) ==
    IF ~has_slot(slot_key) THEN Fail("load", slot_key, SlotKeyError)
    ELSE LET slot == manifest.slots[slot_key]
             unsatisfied_dep_ids == find_unsatisfied_dependencies(slot)
         IN IF SlotDepRaises(slot) THEN Fail("load", slot_key, ImportError)
            ELSE IF unsatisfied_dep_ids # {}
            THEN Res("load", slot_key, MLIODependenciesNotSatisfied, NoObject,
                     unsatisfied_dep_ids, FALSE)
            ELSE IF ~opened THEN Fail("load", slot_key, ValueError)
            ELSE IF pack_object(slot) \notin Names(archive)
            THEN Fail("load", slot_key, "KeyError")
            ELSE LET data == LastEntry(archive, pack_object(slot)).data
                 IN IF ChecksumMismatch(slot, data)
                    THEN Fail("load", slot_key, MLIOPackSlotWrongChecksum)
                    ELSE IF SerializerLoad(slot.serializer, data) = NoObject
                    THEN Res("load", slot_key, DecodeError, NoObject, {}, TRUE)
                    ELSE Res("load", slot_key, OK,
                             SerializerLoad(slot.serializer, data), {}, TRUE)

\* mutant: load touches updated_at of the in-memory manifest
LoadTouchingManifest(slot_key) ==
    /\ result' = LoadOutcome(slot_key)
    /\ manifest' = touch_updated_at(manifest, now)
    /\ UNCHANGED <<rvars, archive, opened, now, tz, stream_closed,
                   serializers_registry, registrations, env, stored>>

Load(slot_key) ==
    /\ result' = LoadOutcome(slot_key)
    /\ UNCHANGED <<rvars, archive, opened, manifest, now, tz, stream_closed,
                   serializers_registry, registrations, env, stored>>

\* mutant: manifest.json is rewritten before the missing key is reported
RemoveMissingRewritesManifest(slot_key) ==
    /\ Len(archive) < MaxEntries
    /\ archive' = update_manifest(archive, manifest, now)
    /\ manifest' = touch_updated_at(manifest, now)
    /\ now' = now + 1
    /\ result' = Fail("remove", slot_key, SlotKeyError)
    /\ UNCHANGED <<rvars, opened, tz, stream_closed,
                   serializers_registry, registrations, env, stored>>

\* Pack.remove on a key that is not in the manifest
RemoveMissing(slot_key) ==
    /\ result' = Fail("remove", slot_key, SlotKeyError)
    /\ UNCHANGED <<rvars, archive, opened, manifest, now, tz, stream_closed,
                   serializers_registry, registrations, env, stored>>

Remove(slot_key) ==
    /\ now < MaxNow
    /\ LET m1 == remove_slot(manifest, slot_key)
           arch1 == update_manifest(archive, m1, now)
           arch2 == cleanup_dangling_pack_objects(arch1, m1)
       IN IF ~has_slot(slot_key)
          THEN RemoveMissing(slot_key)
          ELSE IF ~opened
          THEN \* remove_slot and touch_updated_at ran, ZipFile.writestr raised
               /\ manifest' = touch_updated_at(m1, now)
               /\ now' = now + 1
               /\ result' = Fail("remove", slot_key, ValueError)
               /\ UNCHANGED <<rvars, archive, opened, tz, stream_closed,
                              serializers_registry, registrations, env, stored>>
          ELSE /\ Len(arch2) <= MaxEntries
               /\ archive' = arch2
               /\ manifest' = touch_updated_at(m1, now)
               /\ now' = now + 1
               /\ result' = Done("remove", slot_key)
               /\ stored' = [stored EXCEPT ![slot_key] = NoObject]
               /\ UNCHANGED <<rvars, opened, tz, stream_closed,
                              serializers_registry, registrations, env>>

\* mutant: closing the Pack closes the file object too
close_with_stream(closed) == TRUE

\* Pack.close: ZipFile.close() of a ZipFile built on a file object leaves the
\* file object as it is
close(closed) == closed

Close ==
    /\ opened
    /\ opened' = FALSE
    /\ stream_closed' = close(stream_closed)
    /\ result' = Done("close", "")
    /\ UNCHANGED <<rvars, archive, manifest, now, tz,
                   serializers_registry, registrations, env, stored>>

\* Pack(file_handler) on the stream of a closed Pack
Reopen ==
    /\ ~opened
    /\ now + 2 < MaxNow
    /\ IF stream_closed
       THEN /\ result' = Fail("open", "", ValueError)
            /\ UNCHANGED <<rvars, archive, opened, stream_closed, manifest, now, tz,
                           serializers_registry, registrations, env, stored>>
       ELSE IF MANIFEST_FILENAME \in Names(archive)
       THEN LET data == LastEntry(archive, MANIFEST_FILENAME).doc
            IN IF DocWellFormed(data)
               THEN /\ manifest' = ManifestFromDict(data)
                    /\ opened' = TRUE
                    /\ result' = Done("open", "")
                    /\ UNCHANGED <<rvars, archive, now, tz, stream_closed,
                                   serializers_registry, registrations, env, stored>>
               ELSE /\ result' = Fail("open", "", FromDictStatus(data))
                    /\ UNCHANGED <<rvars, archive, opened, manifest, now, tz, stream_closed,
                                   serializers_registry, registrations, env, stored>>
       ELSE /\ Len(archive) < MaxEntries
            /\ manifest' = touch_updated_at(PackManifest(now), now + 2)
            /\ archive' = update_manifest(archive, PackManifest(now), now + 2)
            /\ now' = now + 3
            /\ opened' = TRUE
            /\ result' = Done("open", "")
            /\ UNCHANGED <<rvars, tz, stream_closed,
                           serializers_registry, registrations, env, stored>>

Next ==
    \/ \E k \in Keys, o \in Objects : Dump(k, o)
    \/ \E k \in Keys : Load(k)
    \/ \E k \in Keys : Remove(k)
    \/ Close
    \/ Reopen

Spec == Init /\ [][Next]_vars

\* ------------------------------------------------- events of the environment
\* the stream of a closed pack is taken to another execution context
Context(numpy, scipy) ==
    [module_name \in Modules |-> IF module_name = "numpy" THEN numpy ELSE scipy]

\* the execution contexts a stream is taken to: the one that created the pack,
\* one with an older numpy, one with an older numpy and no scipy
Contexts ==
    { Context(InstalledAtStart, InstalledAtStart),
      Context(OlderVersion, InstalledAtStart),
      Context(OlderVersion, Missing) }

\* the objects whose serializers declare context dependencies
ObjectsWithDependencies ==
    { o \in Objects : DependencyModules(find_suitable_serializer(o), o) # {} }

EnvChange(context) ==
    /\ ~opened
    /\ env # context
    /\ env' = context
    /\ result' = Done("env", "")
    /\ UNCHANGED <<rvars, archive, opened, manifest, now, tz, stream_closed,
                   serializers_registry, registrations, stored>>

CorruptData == {<<9>>}

\* the payload entry of a closed pack is overwritten from outside the Pack
\* API, as ZipFile.writestr(pack_object, b'broken data') does
Corrupt(name, data) ==
    /\ ~opened
    /\ \E k \in DOMAIN manifest.slots : pack_object(manifest.slots[k]) = name
    /\ name \in Names(archive)
    /\ LastEntry(archive, name).data # data
    /\ Len(archive) < MaxEntries
    /\ archive' = Append(archive, PayloadEntry(name, data))
    /\ result' = Done("corrupt", "")
    /\ UNCHANGED <<rvars, opened, manifest, now, tz, stream_closed,
                   serializers_registry, registrations, env, stored>>

NextExt ==
    \/ \E k \in Keys, o \in ObjectsWithDependencies : Dump(k, o)
    \/ \E k \in Keys : Load(k)
    \/ \E k \in Keys : Remove(k)
    \/ Close
    \/ Reopen
    \/ \E context \in Contexts : EnvChange(context)
    \/ \E n \in Names(archive), d \in CorruptData : Corrupt(n, d)

SpecExt == Init /\ [][NextExt]_vars

\* an exception (KeyboardInterrupt, I/O error) stops dump after the payload
\* append and before the manifest rewrite; the with block closes the ZipFile
InterruptDump(obj) ==
    /\ opened
    /\ unreferenced_objects(archive, manifest) = {}
    /\ \E slot_key \in Keys : ~has_slot(slot_key)
    /\ ObjectExists(obj)
    /\ ~SerializerDumpRaises(find_suitable_serializer(obj), obj)
    /\ pack_object(DumpSlot(obj)) \notin existing_pack_objects(archive)
    /\ Len(archive) < MaxEntries
    /\ archive' = Append(archive,
                         PayloadEntry(pack_object(DumpSlot(obj)),
                                      SerializerDump(find_suitable_serializer(obj), obj)))
    /\ opened' = FALSE
    /\ stream_closed' = close(stream_closed)
    /\ result' = Fail("dump", "", "Interrupted")
    /\ UNCHANGED <<rvars, manifest, now, tz,
                   serializers_registry, registrations, env, stored>>

\* an exception stops remove after the manifest rewrite and before the
\* zero-length overwrites; the with block closes the ZipFile
InterruptRemove(slot_key) ==
    /\ opened
    /\ unreferenced_objects(archive, manifest) = {}
    /\ has_slot(slot_key)
    /\ now < MaxNow
    /\ Len(archive) < MaxEntries
    /\ archive' = update_manifest(archive, remove_slot(manifest, slot_key), now)
    /\ manifest' = touch_updated_at(remove_slot(manifest, slot_key), now)
    /\ now' = now + 1
    /\ opened' = FALSE
    /\ stream_closed' = close(stream_closed)
    /\ result' = Fail("remove", slot_key, "Interrupted")
    /\ stored' = [stored EXCEPT ![slot_key] = NoObject]
    /\ UNCHANGED <<rvars, tz, serializers_registry, registrations, env>>

\* the process dies inside dump or remove: ZipFile.close never runs, so the
\* stream holds no central directory and ZipFile(stream, 'a') finds no entry
KillDump(obj) ==
    /\ opened
    /\ \E slot_key \in Keys : ~has_slot(slot_key)
    /\ ObjectExists(obj)
    /\ ~SerializerDumpRaises(find_suitable_serializer(obj), obj)
    /\ archive' = <<>>
    /\ opened' = FALSE
    /\ result' = Fail("dump", "", "Killed")
    /\ stored' = [k \in Keys |-> NoObject]
    /\ UNCHANGED <<rvars, manifest, now, tz, stream_closed, serializers_registry, registrations, env>>

KillRemove(slot_key) ==
    /\ opened
    /\ has_slot(slot_key)
    /\ now < MaxNow
    /\ archive' = <<>>
    /\ manifest' = touch_updated_at(remove_slot(manifest, slot_key), now)
    /\ now' = now + 1
    /\ opened' = FALSE
    /\ result' = Fail("remove", slot_key, "Killed")
    /\ stored' = [k \in Keys |-> NoObject]
    /\ UNCHANGED <<rvars, tz, stream_closed, serializers_registry, registrations, env>>

NextInterrupt ==
    \/ Next
    \/ \E o \in Objects : InterruptDump(o)
    \/ \E k \in Keys : InterruptRemove(k)
    \/ \E o \in Objects : KillDump(o)
    \/ \E k \in Keys : KillRemove(k)

SpecInterrupt == Init /\ [][NextInterrupt]_vars

\* the pack is used by processes that may die and leave the stream unclosed
NextKill ==
    \/ Next
    \/ \E o \in Objects : KillDump(o)
    \/ \E k \in Keys : KillRemove(k)

SpecKill == Init /\ [][NextKill]_vars

\* the pack is created and used in a time zone west of UTC
InitWest == \E offset \in WestTZOffsets : InitAt(offset)

SpecWest == InitWest /\ [][Next]_vars

\* a manifest.json written by another tool
ForeignDependency ==
    ModuleVersionContextDependency("numpy", [op |-> "~=", ver |-> InstalledAtStart])

ForeignSlot(serializer, dependencies) ==
    [serialized_sha256_hash |->
        hash_file_object(SerializerDump("default", Obj("tests", <<1>>))),
     serializer |-> serializer,
     dependencies |-> dependencies]

ForeignDoc(shape, version, dependencies, slots) ==
    [shape |-> shape,
     version |-> version,
     meta |-> [created_at |-> 0, updated_at |-> 1],
     dependencies |-> dependencies,
     slots |-> slots]

OneDependency(id, type) ==
    [i \in {id} |-> [DepToDict(ForeignDependency) EXCEPT !.type = type]]

OneSlot(serializer, dependencies) ==
    [k \in {"k1"} |-> ForeignSlot(serializer, dependencies)]

TwoSlots(first, second) ==
    [k \in {"k1", "k2"} |-> IF k = "k1" THEN first ELSE second]

ForeignDocs ==
    LET id == dependency_id(ForeignDependency)
        other_id == dependency_id(ModuleVersionContextDependency(
                        "scipy", [op |-> "~=", ver |-> InstalledAtStart]))
    IN { \* well formed, the dependency is referenced by the slot
         ForeignDoc("object", 2, OneDependency(id, "module-version"),
                    OneSlot("default", {id})),
         \* well formed, the dependency is referenced by no slot
         ForeignDoc("object", 2, OneDependency(id, "module-version"), EmptyMap),
         \* text that is not JSON
         ForeignDoc("not-json", 2, EmptyMap, EmptyMap),
         \* a JSON array at the top level
         ForeignDoc("not-object", 2, EmptyMap, EmptyMap),
         \* an unknown version
         ForeignDoc("object", 1, EmptyMap, EmptyMap),
         \* 'dependencies' or 'slots' is not an object
         ForeignDoc("dependencies-not-object", 2, EmptyMap, EmptyMap),
         ForeignDoc("slots-not-object", 2, EmptyMap, EmptyMap),
         \* a dependency entry that is not an object
         ForeignDoc("dependency-not-object", 2, EmptyMap, EmptyMap),
         \* an unknown dependency type
         ForeignDoc("object", 2, OneDependency(id, "unknown"), EmptyMap),
         \* a dependency stored under an id that is not its own
         ForeignDoc("object", 2, OneDependency(other_id, "module-version"), EmptyMap),
         \* a slot that references a dependency absent from the map
         ForeignDoc("object", 2, EmptyMap, OneSlot("default", {id})),
         \* a slot of an unknown serializer
         ForeignDoc("object", 2, EmptyMap, OneSlot("unknown", {})),
         \* a slot of an unknown serializer, followed by a slot that references
         \* a dependency absent from the map
         ForeignDoc("object", 2, EmptyMap,
                    TwoSlots(ForeignSlot("unknown", {}), ForeignSlot("default", {id}))) }

\* another tool rewrites manifest.json in the stream of a closed pack that
\* holds nothing but its first manifest
ForeignManifest(doc) ==
    /\ ~opened
    /\ Len(archive) = 1
    /\ archive' = Append(archive, ManifestEntry(doc))
    /\ result' = Done("foreign", "")
    /\ UNCHANGED <<rvars, opened, manifest, now, tz, stream_closed,
                   serializers_registry, registrations, env, stored>>

NextForeign ==
    \/ Next
    \/ \E doc \in ForeignDocs : ForeignManifest(doc)

SpecForeign == Init /\ [][NextForeign]_vars

\* ------------------------------------------- the manifest used on its own
\* a second dependency object with the id of ModuleVersionContextDependency(
\* module_name, version_specs): "instance" tells the two objects apart
OtherInstance(dep) ==
    [module_name |-> dep.module_name, version_specs |-> dep.version_specs,
     instance |-> 2]

\* the slots a caller builds and inserts
ManifestSlots ==
    LET numpy == ModuleVersionContextDependency(
                     "numpy", [op |-> "~=", ver |-> InstalledAtStart])
        scipy == ModuleVersionContextDependency(
                     "scipy", [op |-> "~=", ver |-> InstalledAtStart])
    IN { PackManifestSlot("default", <<1>>, deps) :
            deps \in { {}, {numpy}, {OtherInstance(numpy)}, {scipy}, {numpy, scipy} } }

\* manifest.insert_slot(slot) called on the manifest
InsertSlot(slot_key, slot) ==
    /\ IF slot_key \in DOMAIN manifest.slots
       THEN /\ result' = Fail("insert_slot", slot_key, SlotKeyError)
            /\ UNCHANGED manifest
       ELSE /\ manifest' = insert_slot(manifest, slot_key, slot)
            /\ result' = Done("insert_slot", slot_key)
    /\ UNCHANGED <<rvars, archive, opened, now, tz, stream_closed,
                   serializers_registry, registrations, env, stored>>

\* manifest.remove_slot(slot_key) called on the manifest
RemoveSlot(slot_key) ==
    /\ IF slot_key \notin DOMAIN manifest.slots
       THEN /\ result' = Fail("remove_slot", slot_key, SlotKeyError)
            /\ UNCHANGED manifest
       ELSE /\ manifest' = remove_slot(manifest, slot_key)
            /\ result' = Done("remove_slot", slot_key)
    /\ UNCHANGED <<rvars, archive, opened, now, tz, stream_closed,
                   serializers_registry, registrations, env, stored>>

ManifestKeys == Keys \cup {"k3"}

NextManifest ==
    \/ \E k \in ManifestKeys, slot \in ManifestSlots : InsertSlot(k, slot)
    \/ \E k \in ManifestKeys : RemoveSlot(k)

SpecManifest == Init /\ [][NextManifest]_vars

\* ------------------------------------------------------------- the facade
\* slot_key=None of compat.dump and compat.load, and the keys they put for it
NoKey == "None"
DefaultDumpKey == "_default"
DefaultLoadKey == "default"

\* with Pack(fp) as mlio_pack: mlio_pack.<method>(...), for a method the class
\* Pack does not have: the Pack is constructed, the attribute lookup raises
\* AttributeError and __exit__ closes the Pack
FacadeCall(op, slot_key) ==
    /\ ~opened
    /\ now + 2 < MaxNow
    /\ stream_closed' = close(stream_closed)
    /\ IF MANIFEST_FILENAME \in Names(archive)
       THEN LET data == LastEntry(archive, MANIFEST_FILENAME).doc
            IN IF DocWellFormed(data)
               THEN /\ manifest' = ManifestFromDict(data)
                    /\ result' = Fail(op, slot_key, AttributeError)
                    /\ UNCHANGED <<rvars, archive, opened, now, tz,
                                   serializers_registry, registrations, env, stored>>
               ELSE /\ result' = Fail(op, slot_key, FromDictStatus(data))
                    /\ UNCHANGED <<rvars, archive, opened, manifest, now, tz,
                                   serializers_registry, registrations, env, stored>>
       ELSE /\ Len(archive) < MaxEntries
            /\ manifest' = touch_updated_at(PackManifest(now), now + 2)
            /\ archive' = update_manifest(archive, PackManifest(now), now + 2)
            /\ now' = now + 3
            /\ result' = Fail(op, slot_key, AttributeError)
            /\ UNCHANGED <<rvars, opened, tz,
                           serializers_registry, registrations, env, stored>>

\* compat.dump(model, fp, slot_key): calls mlio_pack.dump_to_slot
compat_dump(slot_key, obj) ==
    /\ ObjectExists(obj)
    /\ FacadeCall("compat.dump", IF slot_key = NoKey THEN DefaultDumpKey ELSE slot_key)

\* compat.load(fp, slot_key): calls mlio_pack.load_from_slot
compat_load(slot_key) ==
    FacadeCall("compat.load", IF slot_key = NoKey THEN DefaultLoadKey ELSE slot_key)

\* the stream is used through the facade and through Pack objects
NextFacade ==
    \/ Next
    \/ \E k \in Keys \cup {NoKey}, o \in Objects : compat_dump(k, o)
    \/ \E k \in Keys \cup {NoKey} : compat_load(k)

SpecFacade == Init /\ [][NextFacade]_vars

\* ---------------------------------------------------- the registry in use
\* a caller registers a serializer class
RegisterSerializer(serializer) ==
    /\ Len(registrations) < MaxRegistrations
    /\ serializers_registry' = register_serializer(serializers_registry, serializer)
    /\ registrations' = Append(registrations, serializer)
    /\ result' = Done("register", serializer)
    /\ UNCHANGED <<rvars, archive, opened, manifest, now, tz, stream_closed, env, stored>>

\* a caller asks for the serializer of an object; the result keeps the object
\* and the class returned
FindSuitableSerializer(obj) ==
    /\ result' =
          IF find_suitable_serializer(obj) = UnknownObjectType
          THEN Res("find", "", UnknownObjectType, obj, {}, FALSE)
          ELSE Res("find", find_suitable_serializer(obj), OK, obj, {}, FALSE)
    /\ UNCHANGED <<rvars, archive, opened, manifest, now, tz, stream_closed, env,
                   serializers_registry, registrations, stored>>

\* the types a caller asks for: the ones of the classes and one nobody uses
SerializerTypes ==
    { serializer_type_of(s) : s \in CustomSerializers \cup Range(Registrations) }
        \cup {"unknown"}

\* a caller asks for the serializer of a type; the result keeps the class
\* returned and, in ids, the type
GetSerializerByType(type) ==
    /\ result' =
          IF get_serializer_by_type(type) = UnknownSerializer
          THEN Res("get", "", UnknownSerializer, NoObject, {type}, FALSE)
          ELSE Res("get", get_serializer_by_type(type), OK, NoObject, {type}, FALSE)
    /\ UNCHANGED <<rvars, archive, opened, manifest, now, tz, stream_closed, env,
                   serializers_registry, registrations, stored>>

NextRegistry ==
    \/ \E serializer \in CustomSerializers \cup Range(Registrations) :
          RegisterSerializer(serializer)
    \/ \E obj \in Objects : FindSuitableSerializer(obj)
    \/ \E type \in SerializerTypes : GetSerializerByType(type)

SpecRegistry == Init /\ [][NextRegistry]_vars

\* ------------------------------------------------------ the resource manager
\* RepositoriesContainer.which(filename): the first repository that has the file
which(filename) == IF filename \in {"a.voc", "b.voc"} THEN "resources_data" ELSE "None"

is_loaded(objs, r) == objs[r] # "unset"

has_resource(man, resource_id) ==
    \E i \in DOMAIN resources[man] : resources[man][i].id = resource_id

\* resource.bind_manager(man) called on the resource
BindManager(r, man) ==
    /\ IF bound_manager[r] # "None"
       THEN /\ result' = Fail("bind_manager", man, "AlreadyBoundResourceError")
            /\ UNCHANGED bound_manager
       ELSE /\ bound_manager' = [bound_manager EXCEPT ![r] = man]
            /\ result' = Done("bind_manager", man)
    /\ UNCHANGED <<archive, opened, stream_closed, manifest, now, tz, env,
                   serializers_registry, registrations, stored, resources, resource_obj>>

\* manager.add_resource(r): the resource is put in the registry, then bound
AddResource(man, r) ==
    /\ IF has_resource(man, r.id)
       THEN /\ result' = Fail("add_resource", man, "KeyError")
            /\ UNCHANGED <<resources, bound_manager>>
       ELSE /\ resources' = [resources EXCEPT ![man] = Append(@, r)]
            /\ IF bound_manager[r] # "None"
               THEN /\ result' = Fail("add_resource", man, "AlreadyBoundResourceError")
                    /\ UNCHANGED bound_manager
               ELSE /\ bound_manager' = [bound_manager EXCEPT ![r] = man]
                    /\ result' = Done("add_resource", man)
    /\ UNCHANGED <<archive, opened, stream_closed, manifest, now, tz, env,
                   serializers_registry, registrations, stored, resource_obj>>

\* the loop of load_resources over the ids: ResourceBase.load of each resource
\* in turn, stopping at the first one that raises
RECURSIVE LoadEach(_, _, _, _)
LoadEach(man, resource_ids, objs, invoked) ==
    IF resource_ids = <<>>
    THEN [status |-> OK, resource_obj |-> objs, invoked |-> invoked]
    ELSE LET r == resources[man][CHOOSE i \in DOMAIN resources[man] :
                                    resources[man][i].id = Head(resource_ids)]
         IN IF is_loaded(objs, r)
            THEN LoadEach(man, Tail(resource_ids), objs, invoked)
            ELSE IF bound_manager[r] = "None"
            THEN [status |-> "UnboundResourceError", resource_obj |-> objs,
                  invoked |-> invoked]
            ELSE IF which(r.filename) = "None"
            THEN [status |-> "ResourceNotFoundError", resource_obj |-> objs,
                  invoked |-> invoked]
            ELSE LoadEach(man, Tail(resource_ids),
                          [objs EXCEPT ![r] = r.filename], invoked \cup {r})

\* mutant: an id is looked up when its turn to be loaded comes
load_resources_checking_in_turn(man, given, resource_ids) ==
    LET RECURSIVE Each(_, _, _)
        Each(ids, objs, invoked) ==
            IF ids = <<>>
            THEN [status |-> OK, resource_obj |-> objs, invoked |-> invoked]
            ELSE IF ~has_resource(man, Head(ids))
            THEN [status |-> "ResourceNotFoundError", resource_obj |-> objs,
                  invoked |-> invoked]
            ELSE LET one == LoadEach(man, <<Head(ids)>>, objs, invoked)
                 IN IF one.status # OK THEN one
                    ELSE Each(Tail(ids), one.resource_obj, one.invoked)
    IN IF ~given \/ resource_ids = <<>>
       THEN LoadEach(man, [i \in DOMAIN resources[man] |-> resources[man][i].id],
                     resource_obj, {})
       ELSE Each(resource_ids, resource_obj, {})

\* ResourceManager.load_resources(resource_ids); given = FALSE is the call
\* without the argument (None)
load_resources(man, given, resource_ids) ==
    IF ~given \/ resource_ids = <<>>
    THEN LoadEach(man, [i \in DOMAIN resources[man] |-> resources[man][i].id],
                  resource_obj, {})
    ELSE IF \E i \in DOMAIN resource_ids : ~has_resource(man, resource_ids[i])
    THEN [status |-> "ResourceNotFoundError", resource_obj |-> resource_obj,
          invoked |-> {}]
    ELSE LoadEach(man, resource_ids, resource_obj, {})

\* the lists of ids a caller passes
ResourceIdLists ==
    LET ids == {"a", "b", "unknown"}
    IN {<<>>} \cup { <<x>> : x \in ids } \cup { <<x, y>> : x \in ids, y \in ids }

LoadResources(man, given, resource_ids) ==
    /\ given \/ resource_ids = <<>>
    /\ LET out == load_resources(man, given, resource_ids)
       IN /\ resource_obj' = out.resource_obj
          /\ result' = Res("load_resources", man, out.status, resource_ids,
                           out.invoked, given)
    /\ UNCHANGED <<archive, opened, stream_closed, manifest, now, tz, env,
                   serializers_registry, registrations, stored, resources,
                   bound_manager>>

NextResources ==
    \/ \E man \in Managers, r \in ResourceObjects : AddResource(man, r)
    \/ \E man \in Managers, r \in ResourceObjects : BindManager(r, man)
    \/ \E man \in Managers, given \in BOOLEAN, resource_ids \in ResourceIdLists :
          LoadResources(man, given, resource_ids)

SpecResources == Init /\ [][NextResources]_vars

\* ------------------------------------------------ LocalDirectoryRepository
\* paths and filenames are strings, modelled as sequences of characters
Filenames == UNION { [1..n -> {"/", ".", "a"}] : n \in 0..MaxFilenameLen }

\* the directory of the repository: "/a"
directory_path == <<"/", "a">>

\* os.path.normpath of an absolute path: empty and "." components dropped,
\* ".." removes the component before it
normpath(path) ==
    LET RECURSIVE Components(_, _, _)
        Components(chars, comps, cur) ==
            LET pushed == IF cur = <<>> \/ cur = <<".">> THEN comps
                          ELSE IF cur = <<".", ".">>
                          THEN (IF comps = <<>> THEN comps
                                ELSE SubSeq(comps, 1, Len(comps) - 1))
                          ELSE Append(comps, cur)
            IN IF chars = <<>> THEN pushed
               ELSE IF Head(chars) = "/" THEN Components(Tail(chars), pushed, <<>>)
               ELSE Components(Tail(chars), comps, Append(cur, Head(chars)))
        RECURSIVE Join(_)
        Join(comps) ==
            IF comps = <<>> THEN <<>> ELSE <<"/">> \o Head(comps) \o Join(Tail(comps))
        comps == Components(path, <<>>, <<>>)
    IN IF comps = <<>> THEN <<"/">> ELSE Join(comps)

\* os.path.commonprefix of two strings: the longest common leading characters
commonprefix(p, q) ==
    LET n == CHOOSE k \in 0..Len(p) :
                 /\ k <= Len(q)
                 /\ \A i \in 1..k : p[i] = q[i]
                 /\ (k < Len(p) /\ k < Len(q)) => p[k + 1] # q[k + 1]
    IN SubSeq(p, 1, n)

\* LocalDirectoryRepository._file_absolute_path
file_absolute_path(filename) ==
    LET RECURSIVE Strip(_)
        Strip(f) == IF f # <<>> /\ Head(f) = "/" THEN Strip(Tail(f)) ELSE f
        result_path == normpath(directory_path \o <<"/">> \o Strip(filename))
    IN IF directory_path # commonprefix(result_path, directory_path)
          \/ result_path = directory_path
       THEN [status |-> "RepositoryPathTraversalError", path |-> <<>>]
       ELSE [status |-> OK, path |-> result_path]

\* repository.has(filename): os.path.isfile of the path
Has(filename) ==
    /\ result' = Res("repository.has", filename, file_absolute_path(filename).status,
                     file_absolute_path(filename).path, {}, FALSE)
    /\ UNCHANGED <<archive, opened, stream_closed, manifest, now, tz, env,
                   serializers_registry, registrations, stored, rvars>>

\* repository.open(filename): open of the path
OpenFile(filename) ==
    /\ result' = Res("repository.open", filename, file_absolute_path(filename).status,
                     file_absolute_path(filename).path, {}, FALSE)
    /\ UNCHANGED <<archive, opened, stream_closed, manifest, now, tz, env,
                   serializers_registry, registrations, stored, rvars>>

NextRepository ==
    \/ \E filename \in Filenames : Has(filename)
    \/ \E filename \in Filenames : OpenFile(filename)

SpecRepository == Init /\ [][NextRepository]_vars

TypeOK ==
    /\ opened \in BOOLEAN
    /\ Len(archive) <= MaxEntries
    /\ now <= MaxNow

\* ------------------------------------------------------------ properties
\* the liveness rule of the archive format: a name is live iff the last entry
\* of that name has non-zero size
IsLive(name) ==
    \E i \in DOMAIN archive :
        /\ archive[i].name = name
        /\ \A j \in DOMAIN archive : j > i => archive[j].name # name
        /\ Len(archive[i].data) > 0

LivePayloads == { n \in Names(archive) : n.ext # "manifest.json" /\ IsLive(n) }

SlotPayloads ==
    { [hash |-> manifest.slots[k].serialized_sha256_hash, ext |-> "slot"] :
        k \in DOMAIN manifest.slots }

Completed == result.status = OK

\* the name has a zero-length entry that follows an entry with content
WasZeroed(arch, name) ==
    \E i, j \in DOMAIN arch :
        /\ i < j
        /\ arch[i].name = name /\ Len(arch[i].data) > 0
        /\ arch[j].name = name /\ Len(arch[j].data) = 0

\* C1: after every completed public operation every slot of the manifest has a
\* live archive entry named <hash>.slot, whatever bytes the encoding produced.
C1_EverySlotHasLivePayload == Completed => SlotPayloads \subseteq LivePayloads

\* C2: after every completed public operation, construction over an existing
\* archive included, every live non-manifest entry is the payload of a slot.
C2_NoLiveUnreferencedPayload == Completed => LivePayloads \subseteq SlotPayloads

C4_DumpExistingKeyChangesNothing ==
    [][\A k \in Keys, o \in Objects :
          (Dump(k, o) /\ k \in DOMAIN manifest.slots)
              => /\ result'.status = SlotKeyError
                 /\ archive' = archive
                 /\ manifest' = manifest
                 /\ LoadOutcome(k)' = LoadOutcome(k)
      ]_vars

C4_Witness ==
    /\ result.op = "dump" /\ result.status = SlotKeyError
    /\ opened
    /\ result.key \in DOMAIN manifest.slots
    /\ LoadOutcome(result.key).status = OK

\* C5: after dump(k, o1) and remove(k) a new dump(k, o2) succeeds for any o2
\* that has an encoding, the same as the one of o1 or another, and load(k)
\* returns o2; a payload zeroed by remove is live again.
C5_RedumpAfterRemove ==
    [][\A k \in Keys, o \in Objects :
          (/\ Dump(k, o) /\ opened /\ result = Done("remove", k)
           /\ SerializerDumpError(find_suitable_serializer(o), o) = OK)
              => /\ result' = Done("dump", k)
                 /\ LoadOutcome(k)'.status = OK
                 /\ LoadOutcome(k)'.value = o
                 /\ \A n \in Names(archive) :
                        (WasZeroed(archive, n) /\ ~IsLive(n)
                            /\ n = [hash |-> manifest'.slots[k].serialized_sha256_hash,
                                    ext |-> "slot"])
                        => IsLive(n)'
      ]_vars

\* the payload of the slot just dumped was zeroed earlier and is live again
C5_Witness ==
    /\ result.op = "dump" /\ result.status = OK
    /\ result.key \in DOMAIN manifest.slots
    /\ WasZeroed(archive, [hash |-> manifest.slots[result.key].serialized_sha256_hash,
                           ext |-> "slot"])
    /\ IsLive([hash |-> manifest.slots[result.key].serialized_sha256_hash, ext |-> "slot"])

\* C6: dumping content that a slot already holds appends no payload and one
\* payload name is live; removing one of the two keys keeps the payload live
\* and the other key loadable; removing the last key leaves no live payload.
C6_DedupAndPrune ==
    [][\A k \in Keys, o \in Objects :
          /\ (/\ Dump(k, o) /\ opened /\ k \notin DOMAIN manifest.slots
              /\ DOMAIN manifest.slots # {}
              /\ \A j \in DOMAIN manifest.slots :
                    manifest.slots[j].serialized_sha256_hash
                        = hash_file_object(SerializerDump(find_suitable_serializer(o), o)))
                => /\ Len(archive') = Len(archive) + 1
                   /\ Cardinality(LivePayloads') = 1
          /\ (/\ Remove(k) /\ opened /\ k \in DOMAIN manifest.slots
              /\ \E j \in DOMAIN manifest.slots \ {k} :
                    manifest.slots[j].serialized_sha256_hash
                        = manifest.slots[k].serialized_sha256_hash)
                => /\ [hash |-> manifest.slots[k].serialized_sha256_hash, ext |-> "slot"]
                        \in LivePayloads'
                   /\ \A j \in DOMAIN manifest.slots \ {k} :
                        LoadOutcome(j)'.status = OK
          /\ (Remove(k) /\ opened /\ DOMAIN manifest.slots = {k})
                => LivePayloads' = {}
      ]_vars

\* C7: load raises SlotChecksumError whenever the hash of the effective
\* payload entry differs from the stored hash, and decode is not invoked.
C7_MismatchAlwaysChecksumError ==
    [][\A k \in Keys :
          (/\ Load(k) /\ opened /\ k \in DOMAIN manifest.slots
           /\ hash_file_object(
                  LastEntry(archive,
                            [hash |-> manifest.slots[k].serialized_sha256_hash,
                             ext |-> "slot"]).data)
                # manifest.slots[k].serialized_sha256_hash)
              => /\ result'.status = MLIOPackSlotWrongChecksum
                 /\ ~result'.decoded
                 /\ result'.value = NoObject
      ]_vars

\* C7 as amended: the same, for a slot whose dependencies are all satisfied.
C7_MismatchChecksumErrorWhenDepsSatisfied ==
    [][\A k \in Keys :
          (/\ Load(k) /\ opened /\ k \in DOMAIN manifest.slots
           /\ \A id \in DOMAIN manifest.slots[k].dependencies :
                  is_satisfied(manifest.slots[k].dependencies[id]) = "true"
           /\ hash_file_object(
                  LastEntry(archive,
                            [hash |-> manifest.slots[k].serialized_sha256_hash,
                             ext |-> "slot"]).data)
                # manifest.slots[k].serialized_sha256_hash)
              => /\ result'.status = MLIOPackSlotWrongChecksum
                 /\ ~result'.decoded
                 /\ result'.value = NoObject
      ]_vars

C7_Witness ==
    /\ result.op = "load" /\ result.status = MLIOPackSlotWrongChecksum
    /\ opened
    /\ result.key \in DOMAIN manifest.slots
    /\ manifest.slots[result.key].dependencies # EmptyMap

\* C8: load raises DependenciesNotSatisfied whenever a dependency of the slot
\* evaluates false; the error lists exactly those ids; no object is returned.
C8_UnsatisfiedDependenciesReported ==
    [][\A k \in Keys :
          (/\ Load(k) /\ k \in DOMAIN manifest.slots
           /\ \E id \in DOMAIN manifest.slots[k].dependencies :
                  is_satisfied(manifest.slots[k].dependencies[id]) = "false")
              => /\ result'.status = MLIODependenciesNotSatisfied
                 /\ result'.ids =
                        { id \in DOMAIN manifest.slots[k].dependencies :
                            is_satisfied(manifest.slots[k].dependencies[id]) = "false" }
                 /\ result'.value = NoObject
                 /\ ~result'.decoded
      ]_vars

\* C9: load and remove of a key that is not in the manifest raise SlotKeyError
\* and leave the in-memory manifest and the archive unchanged.
C9_MissingKeyRaisesAndChangesNothing ==
    [][\A k \in Keys :
          ((Load(k) \/ Remove(k)) /\ k \notin DOMAIN manifest.slots)
              => /\ result'.status = SlotKeyError
                 /\ manifest' = manifest
                 /\ archive' = archive
      ]_vars

C9_Witness ==
    /\ result.op = "remove" /\ result.status = SlotKeyError
    /\ result.key \notin DOMAIN manifest.slots
    /\ DOMAIN manifest.slots # {}

\* C10 (I1): every dependency id referenced by a slot is a key of the
\* dependency map of the manifest.
C10_SlotDependenciesInManifest ==
    \A k \in DOMAIN manifest.slots :
        DOMAIN manifest.slots[k].dependencies \subseteq DOMAIN manifest.dependencies

\* a remove left a slot whose dependency another, removed slot shared
C10_Witness ==
    /\ result.op = "remove" /\ result.status = OK
    /\ \E k \in DOMAIN manifest.slots : manifest.slots[k].dependencies # EmptyMap

\* C11 (I2): after every public operation, opening a pack on a stored
\* manifest.json included, every dependency id of the dependency map of the
\* manifest is referenced by at least one slot.
C11_NoDanglingDependency ==
    \A id \in DOMAIN manifest.dependencies :
        \E k \in DOMAIN manifest.slots : id \in DOMAIN manifest.slots[k].dependencies

\* C12 (I3): in every reachable manifest state updated_at is not before
\* created_at, both read as the UTC instants they display.
C12_UpdatedNotBeforeCreated == manifest.updated_at.t >= manifest.created_at.t

\* the manifest documents of the archive, oldest first
ManifestDocs(arch) == SelectSeq(arch, LAMBDA e : e.name = MANIFEST_FILENAME)

\* the document that was effective before the last rewrite of manifest.json
DocBeforeLastRewrite(arch) == ManifestDocs(arch)[Len(ManifestDocs(arch)) - 1].doc

\* C13: dump(k, o) on a key that is not in the pack followed by remove(k)
\* leaves has_slot(k) false and the slots and the dependency map of the manifest
\* as they were before the dump.
C13_DumpThenRemoveRestoresManifest ==
    [][\A k \in Keys :
          (Remove(k) /\ opened /\ result = Done("dump", k))
              => /\ result' = Done("remove", k)
                 /\ k \notin DOMAIN manifest'.slots
                 /\ ManifestToDict(manifest').slots
                        = DocBeforeLastRewrite(archive).slots
                 /\ ManifestToDict(manifest').dependencies
                        = DocBeforeLastRewrite(archive).dependencies
      ]_vars

\* C14: a pack opened on the stream of a pack that was closed after completed
\* operations has a manifest equal to the in-memory manifest at close time:
\* slot keys, hashes, serializers, dependency ids of each slot, dependency map
\* and the created_at and updated_at instants.
C14_ReopenedManifestEqualsClosed ==
    [][(Reopen /\ result = Done("close", ""))
          => /\ result' = Done("open", "")
             /\ manifest'.slots = manifest.slots
             /\ manifest'.dependencies = manifest.dependencies
             /\ manifest'.created_at.t = manifest.created_at.t
             /\ manifest'.updated_at.t = manifest.updated_at.t
      ]_vars

\* C15: when execution stops inside dump, after the payload append and before
\* the manifest rewrite, or inside remove, after the manifest rewrite and before
\* the zero-length overwrites, the next open succeeds and reads a manifest in
\* which every slot has a live payload and no slot is new.
C15_NoPhantomSlotAfterInterruption ==
    [][(Reopen /\ result.status \in {"Interrupted", "Killed"})
          => /\ result' = Done("open", "")
             /\ DOMAIN manifest'.slots \subseteq DOMAIN manifest.slots
             /\ \A k \in DOMAIN manifest'.slots :
                    pack_object(manifest'.slots[k]) \in existing_pack_objects(archive')
      ]_vars

\* C16: when encoding the object or appending the payload fails during
\* dump(k, obj), the failure propagates and the in-memory manifest is unchanged:
\* k is not a slot and no dependency was added.
C16_FailedDumpLeavesManifest ==
    [][\A k \in Keys, o \in Objects :
          (/\ Dump(k, o) /\ k \notin DOMAIN manifest.slots
           /\ \/ SerializerDumpError(find_suitable_serializer(o), o) # OK
              \/ /\ ~opened
                 /\ pack_object(DumpSlot(o)) \notin existing_pack_objects(archive))
              => /\ result'.status \notin {OK, SlotKeyError}
                 /\ manifest' = manifest
                 /\ k \notin DOMAIN manifest'.slots
      ]_vars

\* a dump on a closed pack that holds a slot failed to append its payload
C16_Witness ==
    /\ result.op = "dump" /\ result.status = ValueError
    /\ ~opened
    /\ DOMAIN manifest.slots # {}
    /\ result.key \notin DOMAIN manifest.slots

\* the archive holds, as its last entry, the document of a manifest with
\* protocol version 2, no slot and no dependency, and that manifest is in memory
FreshManifestWritten(arch, m) ==
    /\ DOMAIN m.slots = {} /\ DOMAIN m.dependencies = {}
    /\ Len(arch) >= 1
    /\ arch[Len(arch)] = ManifestEntry(ManifestToDict(m))
    /\ arch[Len(arch)].doc.version = 2

\* C17: constructing a Pack on an archive without manifest.json creates a
\* manifest of protocol version 2 with no slots and no dependencies and writes
\* it as manifest.json before returning; constructing a Pack on an archive that
\* has a manifest.json writes nothing.
C17_ConstructionWritesManifestOnlyWhenAbsent ==
    /\ FreshManifestWritten(archive, manifest) /\ Len(archive) = 1
    /\ [][Reopen =>
            IF MANIFEST_FILENAME \in Names(archive)
            THEN archive' = archive
            ELSE /\ result'.status = OK
                 /\ Len(archive') = Len(archive) + 1
                 /\ SubSeq(archive', 1, Len(archive)) = archive
                 /\ FreshManifestWritten(archive', manifest')
         ]_vars

\* a Pack was constructed on a stream that lost its manifest.json
C17_Witness ==
    /\ opened /\ result = Done("open", "")
    /\ now > 3
    /\ Len(archive) = 1
    /\ FreshManifestWritten(archive, manifest)

\* C18: when manifest.json cannot be parsed into a manifest, constructing the
\* Pack fails with MLIOPackWrongFormat and with no other error kind.
C18_UnparseableManifestIsWrongFormat ==
    (result.op = "open" /\ result.status # OK) => result.status = MLIOPackWrongFormat

\* the documents C19 has from_dict reject: a JSON object with a version other
\* than 2, with 'dependencies' or 'slots' that is not an object, with a
\* dependency stored under an id that is not its own, or with a slot that
\* references a dependency id absent from the dependency map
C19_MustBeRejected(data) ==
    /\ data.shape \notin {"not-json", "not-object"}
    /\ \/ data.version # 2
       \/ data.shape \in {"dependencies-not-object", "slots-not-object"}
       \/ \E id \in DOMAIN data.dependencies :
              /\ data.dependencies[id].type = "module-version"
              /\ dependency_id(DepFromDict(data.dependencies[id])) # id
       \/ \E k \in DOMAIN data.slots :
              ~(data.slots[k].dependencies \subseteq DOMAIN data.dependencies)

\* C19: PackManifest.from_dict raises MLIOPackWrongFormat when version # 2, when
\* 'dependencies' or 'slots' is not an object, when a declared dependency id
\* differs from the id of the rebuilt dependency, or when a slot references a
\* dependency id absent from the dependency map; every manifest it returns
\* satisfies I1.
C19_FromDictRejectsWithWrongFormat ==
    [][(Reopen /\ MANIFEST_FILENAME \in Names(archive)) =>
          LET data == LastEntry(archive, MANIFEST_FILENAME).doc
          IN /\ C19_MustBeRejected(data) => result'.status = MLIOPackWrongFormat
             /\ result'.status = OK =>
                    \A k \in DOMAIN manifest'.slots :
                        DOMAIN manifest'.slots[k].dependencies
                            \subseteq DOMAIN manifest'.dependencies
      ]_vars

\* the positions of the history that hold the class now registered under its
\* type and accepting obj: a later registration of the same type replaces it
C20_Accepting(obj) ==
    { i \in DOMAIN registrations :
        /\ can_serialize(registrations[i], obj)
        /\ \A j \in DOMAIN registrations :
              j > i => serializer_type_of(registrations[j]) # serializer_type_of(registrations[i]) }

\* C20: find_suitable_serializer(obj) returns the most recently registered
\* serializer, among the registered ones, whose can_serialize(obj) is true, and
\* raises UnknownObjectType when no registered serializer accepts obj.
C20_FirstAcceptingInPriorityOrder ==
    [][\A obj \in Objects :
          FindSuitableSerializer(obj) =>
              IF C20_Accepting(obj) = {}
              THEN result'.status = UnknownObjectType
              ELSE /\ result'.status = OK
                   /\ \E i \in C20_Accepting(obj) :
                         /\ result'.key = registrations[i]
                         /\ \A j \in C20_Accepting(obj) : j <= i
      ]_vars

\* the serializer of an object that two registered classes accept was asked
\* for after a caller had registered a class
C20_Witness ==
    /\ result.op = "find" /\ result.status = OK
    /\ Len(registrations) > Len(Registrations)
    /\ Cardinality(C20_Accepting(result.value)) >= 2
    /\ result.key = serializers_registry[1]

\* C21 as stated: after register_serializer(c), find_suitable_serializer returns
\* c for every object c accepts and the same serializer as before for every
\* object c does not accept, also when the type of c was already registered.
C21_RegisterKeepsOtherLookups ==
    [][\A c \in CustomSerializers \cup Range(Registrations) :
          RegisterSerializer(c) =>
              \A obj \in Objects :
                  IF can_serialize(c, obj)
                  THEN find_suitable_serializer(obj)' = c
                  ELSE find_suitable_serializer(obj)' = find_suitable_serializer(obj)
      ]_vars

\* the first serializer in priority order that accepts obj, the one registered
\* under the type of c left out
C21_NextAccepting(c, obj) ==
    LET hits == { i \in DOMAIN serializers_registry :
                    /\ serializer_type_of(serializers_registry[i]) # serializer_type_of(c)
                    /\ can_serialize(serializers_registry[i], obj) }
    IN IF hits = {} THEN UnknownObjectType
       ELSE serializers_registry[CHOOSE i \in hits : \A j \in hits : i <= j]

\* C21 amended: after register_serializer(c), find_suitable_serializer returns c
\* for every object c accepts; for an object c does not accept it returns the
\* same serializer as before, unless that serializer was registered under the
\* type of c: c took its place, and the next accepting serializer in priority
\* order is returned, UnknownObjectType when there is none.
C21_RegisterKeepsOtherLookupsButReplaced ==
    [][\A c \in CustomSerializers \cup Range(Registrations) :
          RegisterSerializer(c) =>
              \A obj \in Objects :
                  IF can_serialize(c, obj)
                  THEN find_suitable_serializer(obj)' = c
                  ELSE IF serializer_type_of(find_suitable_serializer(obj)) = serializer_type_of(c)
                  THEN find_suitable_serializer(obj)' = C21_NextAccepting(c, obj)
                  ELSE find_suitable_serializer(obj)' = find_suitable_serializer(obj)
      ]_vars

\* a class was registered under the type of the default serializer, and an
\* object only the default serializer accepted has no serializer any more
C21_Witness ==
    /\ result = Done("register", "strict-default")
    /\ serializers_registry[1] = "strict-default"
    /\ find_suitable_serializer(Obj("__main__", <<1>>)) = UnknownObjectType

\* the positions of the history that registered a class of the type
C22_RegisteredAs(type) ==
    { i \in DOMAIN registrations : serializer_type_of(registrations[i]) = type }

\* C22: get_serializer_by_type(type) returns the serializer registered under
\* exactly that type, the last one registered under it, and raises
\* UnknownSerializer for a type that was never registered; after any sequence
\* of registrations at most one serializer is registered per type.
C22_ExactLookupOnePerType ==
    /\ [](\A i, j \in DOMAIN serializers_registry :
             serializer_type_of(serializers_registry[i])
                 = serializer_type_of(serializers_registry[j]) => i = j)
    /\ [][\A type \in SerializerTypes :
             GetSerializerByType(type) =>
                 IF C22_RegisteredAs(type) = {}
                 THEN result'.status = UnknownSerializer
                 ELSE /\ result'.status = OK
                      /\ serializer_type_of(result'.key) = type
                      /\ \E i \in C22_RegisteredAs(type) :
                            /\ result'.key = registrations[i]
                            /\ \A j \in C22_RegisteredAs(type) : j <= i
         ]_vars

\* the type "default" was asked for after a caller registered a class of
\* that type over the built-in one
C22_Witness ==
    /\ result.op = "get" /\ result.status = OK
    /\ result.ids = {"default"}
    /\ result.key = "strict-default"
    /\ Cardinality(C22_RegisteredAs("default")) >= 2

\* a stored manifest whose only defect is a slot recorded with a serializer
\* type that is not in the registry
C23_UnknownSerializerOnly(data) ==
    /\ data.shape = "object"
    /\ ~C19_MustBeRejected(data)
    /\ \A id \in DOMAIN data.dependencies : data.dependencies[id].type = "module-version"
    /\ \E k \in DOMAIN data.slots :
          get_serializer_by_type(data.slots[k].serializer) = UnknownSerializer

\* C23: for a pack whose manifest has a slot recorded with a serializer type
\* that is not in the registry, the pack opens and load of that slot fails with
\* UnknownSerializer: the error is surfaced by load.
C23_UnknownSerializerSurfacedByLoad ==
    [][(Reopen /\ MANIFEST_FILENAME \in Names(archive)) =>
          LET data == LastEntry(archive, MANIFEST_FILENAME).doc
          IN C23_UnknownSerializerOnly(data) =>
                /\ result' = Done("open", "")
                /\ opened'
                /\ \A k \in DOMAIN data.slots :
                      get_serializer_by_type(data.slots[k].serializer) = UnknownSerializer
                          => LoadOutcome(k)'.status = UnknownSerializer
      ]_vars

\* the object a Pack constructed on the archive would load from the slot
StoredObject(arch, slot_key) ==
    LET data == LastEntry(arch, MANIFEST_FILENAME).doc
    IN IF slot_key \notin DOMAIN data.slots THEN NoObject
       ELSE LET name == [hash |-> data.slots[slot_key].serialized_sha256_hash,
                         ext |-> "slot"]
            IN IF name \notin Names(arch) THEN NoObject
               ELSE SerializerLoad(data.slots[slot_key].serializer,
                                   LastEntry(arch, name).data)

\* C24: the facade functions dump(obj, stream) and load(stream), called without
\* a slot key, both use the key "_default": dump(obj, stream) stores obj under
\* it and load(stream) returns the object stored under it.
C24_FacadeDefaultKeyRoundTrip ==
    [][/\ \A o \in Objects :
            (/\ compat_dump(NoKey, o)
             /\ SerializerDumpError(find_suitable_serializer(o), o) = OK
             /\ StoredObject(archive, "_default") = NoObject)
                => /\ result' = Done("compat.dump", "_default")
                   /\ StoredObject(archive', "_default") = o
       /\ compat_load(NoKey)
            => /\ result'.key = "_default"
               /\ StoredObject(archive, "_default") # NoObject
                    => /\ result'.status = OK
                       /\ result'.value = StoredObject(archive, "_default")
      ]_vars

\* C25: through the facade, dump(o2, stream, slot_key=k) on a stream that holds
\* an object under k succeeds, and load(stream, slot_key=k) then returns o2.
C25_FacadeDumpReplaces ==
    [][\A k \in Keys :
        /\ \A o \in Objects :
            (/\ compat_dump(k, o)
             /\ SerializerDumpError(find_suitable_serializer(o), o) = OK
             /\ StoredObject(archive, k) # NoObject)
                => /\ result' = Done("compat.dump", k)
                   /\ StoredObject(archive', k) = o
        /\ (compat_load(k) /\ StoredObject(archive, k) # NoObject)
                => /\ result'.status = OK
                   /\ result'.value = StoredObject(archive, k)
      ]_vars

\* C26: a module-version dependency whose module cannot be imported is never
\* treated as satisfied: is_satisfied() returns false or load of a slot that
\* carries it fails with DependenciesNotSatisfied; the object is not returned.
C26_UnimportableModuleNotSatisfied ==
    [][\A k \in Keys :
          (Load(k) /\ k \in DOMAIN manifest.slots)
              => \A id \in DOMAIN manifest.slots[k].dependencies :
                    ~Importable(manifest.slots[k].dependencies[id].module_name)
                        => /\ \/ is_satisfied(manifest.slots[k].dependencies[id]) = "false"
                              \/ result'.status = MLIODependenciesNotSatisfied
                           /\ result'.value = NoObject
                           /\ ~result'.decoded
      ]_vars

\* C27: close(), and leaving a with block, also after an operation raised,
\* closes the ZIP container and never the stream: the stream stays open and a
\* Pack can be constructed on it afterwards.
C27_CloseLeavesStreamOpen ==
    /\ [](~stream_closed)
    /\ [][Close => (~opened' /\ ~stream_closed')]_vars
    /\ [][Reopen => result'.status # ValueError]_vars

\* a Pack was constructed on the stream of a Pack that had been closed
C27_Witness ==
    /\ opened /\ result = Done("open", "")
    /\ manifest.created_at.aware
    /\ ~stream_closed

\* C28: Closed is terminal: after close() no dump, load or remove on the Pack
\* succeeds, and none of them changes the slots or the dependencies of the
\* in-memory manifest, or the archive.
C28_ClosedPackChangesNothing ==
    [][(/\ ~opened
        /\ \/ \E k \in Keys, o \in Objects : Dump(k, o)
           \/ \E k \in Keys : Load(k)
           \/ \E k \in Keys : Remove(k))
          => /\ result'.status # OK
             /\ manifest'.slots = manifest.slots
             /\ manifest'.dependencies = manifest.dependencies
             /\ archive' = archive
      ]_vars

\* C29: PackManifest.insert_slot with a key already present raises SlotKeyError
\* and leaves slots and dependencies unchanged; a successful insert adds the
\* dependency ids that are not in the map, and an id already in the map keeps
\* the dependency object it has.
C29_InsertSlotMergesDependencies ==
    [][\A k \in ManifestKeys, slot \in ManifestSlots :
          InsertSlot(k, slot) =>
              IF k \in DOMAIN manifest.slots
              THEN /\ result'.status = SlotKeyError
                   /\ manifest'.slots = manifest.slots
                   /\ manifest'.dependencies = manifest.dependencies
              ELSE /\ result'.status = OK
                   /\ DOMAIN manifest'.slots = DOMAIN manifest.slots \cup {k}
                   /\ manifest'.slots[k] = slot
                   /\ \A other \in DOMAIN manifest.slots :
                         manifest'.slots[other] = manifest.slots[other]
                   /\ DOMAIN manifest'.dependencies =
                         DOMAIN manifest.dependencies \cup DOMAIN slot.dependencies
                   /\ \A id \in DOMAIN manifest.dependencies :
                         manifest'.dependencies[id] = manifest.dependencies[id]
                   /\ \A id \in DOMAIN slot.dependencies \ DOMAIN manifest.dependencies :
                         manifest'.dependencies[id] = slot.dependencies[id]
      ]_vars

\* a slot was inserted whose dependency id the manifest already had with
\* another object, and the manifest kept its own
C29_Witness ==
    /\ result.op = "insert_slot" /\ result.status = OK
    /\ \E id \in DOMAIN manifest.slots[result.key].dependencies :
          manifest.dependencies[id] # manifest.slots[result.key].dependencies[id]

\* the payload names that the step appended a zero-length entry for
ZeroedByStep(before, after) ==
    { after[i].name : i \in { n \in DOMAIN after :
          /\ n > Len(before)
          /\ after[n].name # MANIFEST_FILENAME
          /\ Len(after[n].data) = 0 } }

\* C30: remove(k) deletes exactly the dependencies that no remaining slot
\* references, overwrites with a zero-length entry exactly the live payload
\* names that no remaining slot references, and every other slot keeps its
\* manifest entry, its dependencies and a live payload, and loads its object.
C30_RemoveAffectsOnlyItsOwn ==
    [][\A k \in Keys :
          (Remove(k) /\ opened /\ k \in DOMAIN manifest.slots) =>
              LET remaining == DOMAIN manifest.slots \ {k}
                  referenced_dep_ids ==
                      UNION { DOMAIN manifest.slots[j].dependencies : j \in remaining }
                  referenced_objects ==
                      { pack_object(manifest.slots[j]) : j \in remaining }
              IN /\ DOMAIN manifest'.slots = remaining
                 /\ DOMAIN manifest'.dependencies =
                       DOMAIN manifest.dependencies \cap referenced_dep_ids
                 /\ ZeroedByStep(archive, archive') = LivePayloads \ referenced_objects
                 /\ \A j \in remaining :
                       /\ manifest'.slots[j] = manifest.slots[j]
                       /\ \A id \in DOMAIN manifest.slots[j].dependencies :
                             /\ id \in DOMAIN manifest'.dependencies
                             /\ manifest'.dependencies[id] = manifest.dependencies[id]
                       /\ pack_object(manifest.slots[j]) \in LivePayloads'
                       /\ LoadOutcome(j)'.status = OK
                       /\ LoadOutcome(j)'.value = stored[j]
      ]_vars

\* C31: created_at never changes once the manifest is created, close and
\* reopen included; every successful dump and remove sets updated_at to the
\* current time; load and an operation that fails with SlotKeyError leave
\* updated_at as it is.
C31_CreatedFixedUpdatedTouched ==
    [][/\ manifest'.created_at.t = manifest.created_at.t
       /\ \A k \in Keys :
             /\ (Load(k) \/ result'.status = SlotKeyError)
                   => manifest'.updated_at = manifest.updated_at
             /\ ((Remove(k) \/ \E o \in Objects : Dump(k, o)) /\ result'.status = OK)
                   => manifest'.updated_at.t = now
      ]_vars

\* C32: load_resources(ids) with an id that is not registered raises
\* ResourceNotFoundError and loads none of the listed resources, wherever the
\* unknown id stands in the list.
C32_UnknownIdLoadsNothing ==
    [][(/\ result'.op = "load_resources"
        /\ \E i \in DOMAIN result'.value : ~has_resource(result'.key, result'.value[i]))
           => /\ result'.status = "ResourceNotFoundError"
              /\ result'.ids = {}
              /\ resource_obj' = resource_obj
      ]_vars

\* the call was refused for an unknown id that came after the id of a
\* registered resource that was not loaded and whose file is in a repository
C32_Witness ==
    /\ result.op = "load_resources" /\ result.status = "ResourceNotFoundError"
    /\ Len(result.value) = 2
    /\ ~has_resource(result.key, result.value[2])
    /\ \E i \in DOMAIN resources[result.key] :
          LET r == resources[result.key][i]
          IN /\ r.id = result.value[1]
             /\ ~is_loaded(resource_obj, r)
             /\ bound_manager[r] # "None"
             /\ which(r.filename) # "None"

\* C33: load_resources(None) loads every registered resource; load_resources
\* of a list of registered ids loads exactly the listed resources and leaves
\* every other resource as it was; the loader of a resource that is already
\* loaded is not invoked again. (The files of the resources to load are in a
\* repository.)
C33_LoadsExactlyTheListed ==
    [][result'.op = "load_resources" =>
          LET man == result'.key
              resource_ids == result'.value
              registered == Range(resources[man])
              listed ==
                  IF result'.decoded
                  THEN { r \in registered :
                           \E i \in DOMAIN resource_ids : resource_ids[i] = r.id }
                  ELSE registered
          IN (/\ \A i \in DOMAIN resource_ids : has_resource(man, resource_ids[i])
              /\ \A r \in listed : which(r.filename) # "None")
                => /\ result'.status = OK
                   /\ \A r \in listed : is_loaded(resource_obj', r)
                   /\ \A r \in ResourceObjects \ listed :
                         resource_obj'[r] = resource_obj[r]
                   /\ \A r \in result'.ids : ~is_loaded(resource_obj, r)
      ]_vars

\* C34: a second bind_manager raises AlreadyBoundResourceError, add_resource
\* with an id already registered raises KeyError, and after any add_resource
\* calls every resource in a manager's registry is bound to that manager.
C34_RegisteredMeansBoundToThatManager ==
    /\ [](\A man \in Managers : \A r \in Range(resources[man]) : bound_manager[r] = man)
    /\ [][\A man \in Managers, r \in ResourceObjects :
           /\ (BindManager(r, man) /\ bound_manager[r] # "None")
                 => (result'.status = "AlreadyBoundResourceError"
                        /\ bound_manager' = bound_manager)
           /\ (AddResource(man, r) /\ has_resource(man, r.id))
                 => (result'.status = "KeyError" /\ resources' = resources
                        /\ bound_manager' = bound_manager)
       ]_vars

\* C35: for every filename, _file_absolute_path returns a path strictly inside
\* the repository directory or raises RepositoryPathTraversalError, so has and
\* open touch no file outside the directory.
C35_PathStaysInsideRepository ==
    result.op \in {"repository.has", "repository.open"} =>
        \/ result.status = "RepositoryPathTraversalError"
        \/ /\ Len(result.value) > Len(directory_path) + 1
           /\ SubSeq(result.value, 1, Len(directory_path) + 1) = directory_path \o <<"/">>

\* C36: load looks the slot up, evaluates the dependencies, verifies the hash
\* of the payload and decodes, in this order: the payload is read only when
\* every dependency is satisfied, and a slot with a dependency that evaluates
\* false and a corrupted payload yields DependenciesNotSatisfied.
C36_DependenciesBeforePayload ==
    [][\A k \in Keys :
          Load(k) =>
              IF k \notin DOMAIN manifest.slots
              THEN result'.status = SlotKeyError
              ELSE LET slot == manifest.slots[k]
                       corrupted ==
                           /\ pack_object(slot) \in Names(archive)
                           /\ ChecksumMismatch(slot, LastEntry(archive, pack_object(slot)).data)
                   IN /\ (result'.decoded \/ result'.status = MLIOPackSlotWrongChecksum)
                          => \A id \in DOMAIN slot.dependencies :
                                is_satisfied(slot.dependencies[id]) = "true"
                      /\ (corrupted /\ \E id \in DOMAIN slot.dependencies :
                                         is_satisfied(slot.dependencies[id]) = "false")
                          => result'.status = MLIODependenciesNotSatisfied
      ]_vars

\* C37: the archive is append-only: every operation leaves the existing
\* entries as they are; dump appends a payload entry and a manifest.json,
\* remove a manifest.json and a zero-length entry for each dangling payload
\* name, the other operations nothing; a non-manifest name is live exactly
\* when its last entry has non-zero size.
C37_ArchiveIsAppendOnly ==
    /\ [](existing_pack_objects(archive) = LivePayloads)
    /\ [][/\ Len(archive') >= Len(archive)
          /\ SubSeq(archive', 1, Len(archive)) = archive
          /\ result'.op \notin {"dump", "remove"} => archive' = archive
          /\ \A i \in (Len(archive) + 1)..Len(archive') :
                LET e == archive'[i]
                IN \/ e.name = MANIFEST_FILENAME
                   \/ /\ result'.op = "dump"
                      /\ i = Len(archive) + 1
                      /\ e.name = pack_object(manifest'.slots[result'.key])
                      /\ e.name.hash = hash_file_object(e.data)
                   \/ /\ result'.op = "remove"
                      /\ Len(e.data) = 0
                      /\ e.name \in LivePayloads
                      /\ \A k \in DOMAIN manifest'.slots :
                            pack_object(manifest'.slots[k]) # e.name
       ]_vars

\* a remove appended a zero-length entry after the payload entry of the name
C37_Witness ==
    /\ result.op = "remove" /\ result.status = OK
    /\ Len(archive[Len(archive)].data) = 0
    /\ archive[Len(archive)].name # MANIFEST_FILENAME
    /\ WasZeroed(archive, archive[Len(archive)].name)

\* C38: after any sequence of dump and remove operations, dedup skips and
\* re-dumps of zeroed content included, the effective payload entry of every
\* slot hashes to the hash stored in the slot, and load never raises
\* SlotChecksumError.
C38_EffectivePayloadMatchesHash ==
    /\ [](\A k \in DOMAIN manifest.slots :
            /\ pack_object(manifest.slots[k]) \in Names(archive)
            /\ hash_file_object(LastEntry(archive, pack_object(manifest.slots[k])).data)
                  = manifest.slots[k].serialized_sha256_hash)
    /\ [][\A k \in Keys : Load(k) => result'.status # MLIOPackSlotWrongChecksum]_vars

\* a slot whose payload name was zeroed by an earlier remove was loaded
C38_Witness ==
    /\ result.op = "load" /\ result.status = OK
    /\ result.key \in DOMAIN manifest.slots
    /\ WasZeroed(archive, pack_object(manifest.slots[result.key]))

\* C39: load is read-only: whether it returns an object or raises, it appends
\* no archive entry and leaves the in-memory manifest unchanged, and a later
\* load of any key gives what it would have given before.
C39_LoadIsReadOnly ==
    [][result'.op = "load" =>
          /\ archive' = archive
          /\ manifest' = manifest
          /\ \A j \in Keys : LoadOutcome(j)' = LoadOutcome(j)
      ]_vars

\* a load raised DependenciesNotSatisfied on an open pack that has the slot
C39_Witness ==
    /\ result.op = "load" /\ result.status = MLIODependenciesNotSatisfied
    /\ opened
    /\ result.key \in DOMAIN manifest.slots

====
